---- MODULE Spec2Model ----
(***************************************************************************)
(* Model of the offline pipeline of the pneumonia repository:              *)
(*   - organize_data.py : the dataset organizer (train/val/test split),    *)
(*   - train_model.py   : the training run (class weights, model factory,  *)
(*                        fit with the three Keras callbacks).             *)
(***************************************************************************)
EXTENDS Integers, Sequences, FiniteSets, TLC

VARIABLES
    srcExists,    \* organizer: the source directory exists
    srcCount,     \* organizer: class -> -1 (class folder absent) or number of image files
    unreadable,   \* organizer: class -> names of the files whose copy raises
    targetDirs,   \* organizer: the six target subdirectories exist
    target,       \* organizer: split -> class -> set of file names on disk
    runLog,       \* organizer: one record per organize_data call, oldest first
    lastMain,     \* organizer: the last run of main() of organize_data.py
    dataDir,      \* trainer: the data directory (exists, train/ and val/ present, image counts)
    args,         \* trainer: model_type and epochs of the call, and whether main() made it
    pc,           \* trainer: position in main() / train_with_generator
    modelsDir,    \* trainer: the models/ directory exists
    train_generator, \* trainer: directory read, class_indices, samples
    class_counts, \* trainer: counted images per class index (index i at position i + 1)
    class_weight, \* trainer: None, or the weight per class index
    warned,       \* trainer: the "could not calculate class weights" warning was printed
    model,        \* trainer: built, weights (epoch they come from), lr, stop_training
    fit_kwargs,   \* trainer: whether fit was called and with which class_weight
    history,      \* trainer: val_loss, val_accuracy and lr of every finished epoch
    checkpoint,   \* trainer: ModelCheckpoint (best, artifact = epoch saved on disk)
    earlyStop,    \* trainer: EarlyStopping (best, wait, best_weights, stopped_epoch)
    reduceLR,     \* trainer: ReduceLROnPlateau (best, wait)
    artifactFile, \* models/pneumonia_model.h5: exists, the run that wrote it, its val_accuracy
    fileLog,      \* every content the artifact file has had, oldest first
    otherRun,     \* a second training run on the same path: status, its ModelCheckpoint, epochs
    predictions,  \* database: the rows (id, user_id) of the predictions table
    lastId,         \* database: the last AUTOINCREMENT id handed out
    lastDelete    \* database: the last delete_prediction call, the table before and after it

orgVars == <<srcExists, srcCount, unreadable, targetDirs, target, runLog, lastMain>>
trainVars == <<dataDir, args, pc, modelsDir, train_generator, class_counts, class_weight, warned,
               model, fit_kwargs, history, checkpoint, earlyStop, reduceLR>>
fileVars == <<artifactFile, fileLog, otherRun>>
dbVars == <<predictions, lastId, lastDelete>>
vars == <<orgVars, trainVars, fileVars, dbVars>>

(***************************************************************************)
(* Bounds                                                                  *)
(***************************************************************************)
MaxFiles == 3     \* class folders hold 0..MaxFiles image files, or the scenario's 10
MaxRuns == 2      \* organize_data calls per behaviour
MaxCount == 2     \* image counts of a class folder read by the trainer: 0..MaxCount
MaxEpochs == 6    \* the largest epochs argument of a run followed epoch by epoch
ScriptEpochs == 38   \* epochs of a long run that follow the slow descent
FreeEpochs == 5   \* epochs of a long run after the slow descent
RaceEpochs == 2   \* epochs of each of two runs that share the artifact path
MaxPredictions == 3   \* predictions saved per behaviour
LongRunEpochs == ScriptEpochs + FreeEpochs   \* the epochs argument of the long run

(***************************************************************************)
(* organize_data.py                                                        *)
(***************************************************************************)
ClassOrder == <<"NORMAL", "PNEUMONIA">>
ClassNames == {"NORMAL", "PNEUMONIA"}
SplitNames == {"train", "val", "test"}

\* Sizes of a class folder: absent (-1), 0..MaxFiles files, or the 10 files of
\* the documented scenario.
FileCounts == (-1 .. MaxFiles) \cup {10}

\* random_seed values; 42 is the default of organize_data.
Seeds == {42, 7}

\* train_split values in tenths (0.5, 0.7, 0.8); 0.8 is the default.
TrainSplits == {5, 7, 8}

\* train_split values outside (0, 1), in tenths: 0, 1 and 1.5.
InvalidTrainSplits == {0, 10, 15}

\* numpy.random.RandomState(seed).permutation(n), 1-based, for n = 1..12:
\* the index permutation sklearn's ShuffleSplit draws for random_state=seed.
PermTable42 ==
    << <<1>>,
       <<2, 1>>,
       <<1, 2, 3>>,
       <<2, 4, 1, 3>>,
       <<2, 5, 3, 1, 4>>,
       <<1, 2, 6, 3, 5, 4>>,
       <<1, 2, 6, 3, 5, 4, 7>>,
       <<2, 6, 1, 8, 3, 5, 4, 7>>,
       <<8, 2, 6, 1, 9, 3, 5, 4, 7>>,
       <<9, 2, 6, 1, 8, 3, 10, 5, 4, 7>>,
       <<6, 1, 10, 11, 3, 2, 9, 5, 8, 4, 7>>,
       <<11, 10, 1, 9, 6, 3, 2, 12, 5, 8, 4, 7>> >>

PermTable7 ==
    << <<1>>,
       <<1, 2>>,
       <<3, 2, 1>>,
       <<3, 2, 1, 4>>,
       <<1, 4, 3, 2, 5>>,
       <<4, 6, 1, 3, 2, 5>>,
       <<3, 6, 1, 7, 4, 2, 5>>,
       <<3, 6, 1, 7, 4, 2, 5, 8>>,
       <<3, 8, 1, 9, 6, 4, 7, 2, 5>>,
       <<9, 6, 1, 3, 2, 10, 8, 4, 7, 5>>,
       <<9, 6, 1, 3, 2, 11, 8, 4, 7, 10, 5>>,
       <<8, 11, 3, 6, 1, 2, 12, 9, 4, 7, 10, 5>> >>

Permutation(seed, n) == IF seed = 42 THEN PermTable42[n] ELSE PermTable7[n]

\* The double (1 - train_split) compared with the exact value: 1 - 0.7 is
\* 0.30000000000000004 (above 3/10), 1 - 0.8 is 0.19999999999999996 (below),
\* 1 - 0.5 is exact.
FloatExcess(trainTenths) ==
    IF trainTenths = 7 THEN 1 ELSE IF trainTenths = 8 THEN -1 ELSE 0

\* test_size=(1 - train_split) of the first train_test_split call.
TestSizeMutSwapped(trainTenths) ==
    [tenths |-> trainTenths, excess |-> 0]

TestSize(trainTenths) ==
    [tenths |-> 10 - trainTenths, excess |-> FloatExcess(trainTenths)]

\* test_size=0.5 of the second train_test_split call.
HalfTestSize == [tenths |-> 5, excess |-> 0]

\* n_test = ceil(test_size * n_samples) on doubles: a product that is an exact
\* integer for the decimal fraction lands just above it when the double is
\* above the fraction.
NTest(n, ts) ==
    LET prod == ts.tenths * n
    IN  IF prod % 10 = 0
        THEN (prod \div 10) + (IF ts.excess > 0 THEN 1 ELSE 0)
        ELSE (prod \div 10) + 1

\* sklearn.model_selection.train_test_split(arr, test_size=ts, random_state=seed):
\* ValueError for a float test_size outside (0, 1); n_train = n - n_test,
\* ValueError when the train set would be empty; the test part is the first
\* n_test indices of the permutation, the train part the rest.
TrainTestSplit(arr, ts, seed) ==
    LET n == Len(arr)
        nTest == NTest(n, ts)
        nTrain == n - nTest
        p == Permutation(seed, n)
    IN  IF ts.tenths <= 0 \/ ts.tenths >= 10 \/ nTrain <= 0
        THEN [raised |-> TRUE, train |-> <<>>, test |-> <<>>]
        ELSE [raised |-> FALSE,
              train |-> [i \in 1 .. nTrain |-> arr[p[nTest + i]]],
              test |-> [i \in 1 .. nTest |-> arr[p[i]]]]

\* The two chained splits of one class: train / temp, then temp into val / test.
SplitClass(imageFiles, trainTenths, seed) ==
    LET first == TrainTestSplit(imageFiles, TestSize(trainTenths), seed)
        second == TrainTestSplit(first.test, HalfTestSize, seed)
    IN  IF first.raised \/ second.raised
        THEN [raised |-> TRUE, train |-> <<>>, val |-> <<>>, test |-> <<>>]
        ELSE [raised |-> FALSE, train |-> first.train,
              val |-> second.train, test |-> second.test]

\* os.listdir(source_class_dir) returns the n names (1..n) in no specified
\* order; the model draws from the sorted order and its reverse.
ListOrders(n) ==
    { [i \in 1 .. n |-> i],
      [i \in 1 .. n |-> n + 1 - i] }

Range(s) == { s[i] : i \in DOMAIN s }

NoSplit ==
    [done |-> FALSE, raised |-> FALSE, train |-> <<>>, val |-> <<>>, test |-> <<>>,
     failed |-> {}]

\* The body of the class loop for one class: skipped (folder absent or no
\* image), raised (train_test_split raised) or done.
ProcessClass(c, listing, trainTenths, seed) ==
    IF srcCount[c] <= 0
    THEN NoSplit
    ELSE LET s == SplitClass(listing[c], trainTenths, seed)
         IN  [done |-> ~s.raised, raised |-> s.raised,
              train |-> s.train, val |-> s.val, test |-> s.test,
              failed |-> IF s.raised THEN {}
                         ELSE (Range(s.train) \cup Range(s.val) \cup Range(s.test))
                                  \cap unreadable[c]]

\* The class loop: NORMAL, then PNEUMONIA unless NORMAL's split raised.
ClassLoop(listing, trainTenths, seed) ==
    LET first == ProcessClass(ClassOrder[1], listing, trainTenths, seed)
        second == IF first.raised
                  THEN NoSplit
                  ELSE ProcessClass(ClassOrder[2], listing, trainTenths, seed)
    IN  [c \in ClassNames |-> IF c = ClassOrder[1] THEN first ELSE second]

\* shutil.copy2 of every file of the three lists of a processed class, under
\* the same name; a copy that raises is reported and leaves no file.
CopiedMutRenamed(split, sp) ==
    [c \in ClassNames |->
        IF sp[c].done
        THEN target[split][c] \cup { f + 100 : f \in Range(sp[c][split]) \ sp[c].failed }
        ELSE target[split][c]]

Copied(split, sp) ==
    [c \in ClassNames |->
        IF sp[c].done
        THEN target[split][c] \cup (Range(sp[c][split]) \ sp[c].failed)
        ELSE target[split][c]]

\* The directory listings one call sees: one order per class folder.
Listings ==
    LET n(c) == IF srcCount[c] < 0 THEN 0 ELSE srcCount[c]
    IN  { [c \in ClassNames |-> IF c = ClassOrder[1] THEN a ELSE b] :
            a \in ListOrders(n(ClassOrder[1])), b \in ListOrders(n(ClassOrder[2])) }

\* organize_data(source_dir, target_dir, train_split, random_seed): the six
\* target folders are made first, then the class loop splits and copies; the
\* source is only read.
OrganizeDataMutMoves(seed, trainTenths) ==
    \E listing \in Listings :
        LET sp == ClassLoop(listing, trainTenths, seed)
        IN  /\ targetDirs' = TRUE
            /\ target' = [s \in SplitNames |-> Copied(s, sp)]
            /\ runLog' = Append(runLog,
                   [seed |-> seed, train_split |-> trainTenths,
                    listing |-> listing,
                    raised |-> \E c \in ClassNames : sp[c].raised,
                    split |-> sp])
            /\ srcCount' = [c \in ClassNames |-> IF sp[c].done THEN 0 ELSE srcCount[c]]
            /\ UNCHANGED <<srcExists, unreadable>>

OrganizeData(seed, trainTenths) ==
    \E listing \in Listings :
        LET sp == ClassLoop(listing, trainTenths, seed)
        IN  /\ targetDirs' = TRUE
            /\ target' = [s \in SplitNames |-> Copied(s, sp)]
            /\ runLog' = Append(runLog,
                   [seed |-> seed, train_split |-> trainTenths,
                    listing |-> listing,
                    raised |-> \E c \in ClassNames : sp[c].raised,
                    split |-> sp])
            /\ UNCHANGED <<srcExists, srcCount, unreadable>>

\* A call of organize_data from other code.
Organize(seed, trainTenths) ==
    /\ Len(runLog) < MaxRuns
    /\ OrganizeData(seed, trainTenths)
    /\ UNCHANGED <<lastMain, trainVars, fileVars, dbVars>>

\* check_data_structure(data_dir), lines 100-148: False for a missing
\* directory; a class folder that exists is a found class whatever it holds;
\* the train/ and val/ part only prints.
CheckDataStructure == srcExists /\ \A c \in ClassNames : srcCount[c] >= 0

MainIdle == [called |-> FALSE, check |-> FALSE, checked |-> FALSE, result |-> FALSE,
             response |-> "none"]

\* main() with --check (lines 164-165): check_data_structure and nothing else.
OrgMainCheckMutMakesDirs ==
    /\ lastMain' = [called |-> TRUE, check |-> TRUE, checked |-> TRUE,
                    result |-> CheckDataStructure, response |-> "none"]
    /\ targetDirs' = TRUE
    /\ UNCHANGED <<srcExists, srcCount, unreadable, target, runLog, trainVars, fileVars, dbVars>>

OrgMainCheck ==
    /\ lastMain' = [called |-> TRUE, check |-> TRUE, checked |-> TRUE,
                    result |-> CheckDataStructure, response |-> "none"]
    /\ UNCHANGED <<srcExists, srcCount, unreadable, targetDirs, target, runLog,
                   trainVars, fileVars, dbVars>>

\* main() without --check (lines 166-180): a missing source is an error;
\* otherwise the structure is reported, the user is asked, and on 'y'
\* organize_data runs with the default seed.
OrgMain(response, trainTenths) ==
    /\ IF ~srcExists
       THEN /\ lastMain' = [called |-> TRUE, check |-> FALSE, checked |-> FALSE,
                            result |-> FALSE, response |-> "none"]
            /\ UNCHANGED <<srcExists, srcCount, unreadable, targetDirs, target, runLog>>
       ELSE /\ lastMain' = [called |-> TRUE, check |-> FALSE, checked |-> TRUE,
                            result |-> CheckDataStructure, response |-> response]
            /\ IF response = "y"
               THEN /\ Len(runLog) < MaxRuns
                    /\ OrganizeData(42, trainTenths)
               ELSE UNCHANGED <<srcExists, srcCount, unreadable, targetDirs, target,
                                runLog>>
    /\ UNCHANGED <<trainVars, fileVars, dbVars>>

(***************************************************************************)
(* train_model.py                                                          *)
(***************************************************************************)
\* Image counts of the two class folders of one directory: -1 when the class
\* folder is absent; small counts, or the documented 100 / 300 scenario.
CountMaps ==
    [ClassNames -> -1 .. MaxCount]
        \cup { [c \in ClassNames |-> IF c = "NORMAL" THEN 100 ELSE 300] }

NoClassDirs == [c \in ClassNames |-> -1]

ModelTypes == {"simple", "transfer", "bogus"}

\* Validation levels: val_accuracy as an ordinal level, val_loss in units of
\* 1e-4 (the min_delta of ReduceLROnPlateau is one unit).
AccLevels == {1, 2}
LossLevels == {2, 3, 5}

NegInf == -1000000     \* -np.inf, the initial best of ModelCheckpoint (mode max)
PosInf == 1000000      \* np.inf, the initial best of the val_loss monitors (mode min)

EsPatience == 5        \* EarlyStopping(patience=5)
RlrPatience == 3       \* ReduceLROnPlateau(patience=3)
RlrFactorDiv == 2      \* ReduceLROnPlateau(factor=0.5)
RlrMinDelta == 1       \* ReduceLROnPlateau's default min_delta, 1e-4
\* Learning rates in units of 1e-7 / 1024, so that every halving is exact.
MinLr == 1024          \* min_lr=1e-7
LrSimple == 10240000   \* Adam's default 1e-3 ('adam')
LrTransfer == 1024000  \* Adam(learning_rate=0.0001)
ValidationSplitTenths == 2   \* validation_split=0.2

\* Sub-directories of a directory in the sorted order flow_from_directory uses.
DirOrder == <<"NORMAL", "PNEUMONIA", "train", "val">>

\* The layout test of lines 104 / 139.
PreSplit == dataDir.trainExists /\ dataDir.valExists

\* class_indices of flow_from_directory(dir): the sub-directories of dir, sorted.
ClassIndices(dir) ==
    LET present(name) ==
            IF dir = "train"
            THEN name \in ClassNames /\ dataDir.train[name] >= 0
            ELSE \/ name \in ClassNames /\ dataDir.flat[name] >= 0
                 \/ name = "train" /\ dataDir.trainExists
                 \/ name = "val" /\ dataDir.valExists
    IN  SelectSeq(DirOrder, present)

Max0(n) == IF n < 0 THEN 0 ELSE n

SumCounts(m) == Max0(m["NORMAL"]) + Max0(m["PNEUMONIA"])

\* Images the training generator finds under class folder `name` of dir: with
\* subset='training' the first int(validation_split * n) files of a class are
\* held out; a folder is walked recursively.
GenClassSamples(dir, name) ==
    LET held(n) == n - ((ValidationSplitTenths * n) \div 10)
    IN  IF dir = "train"
        THEN Max0(dataDir.train[name])
        ELSE IF name \in ClassNames
             THEN held(Max0(dataDir.flat[name]))
             ELSE IF name = "train" THEN held(SumCounts(dataDir.train)) ELSE 0

RECURSIVE SumSeq(_)
SumSeq(s) == IF s = <<>> THEN 0 ELSE Head(s) + SumSeq(Tail(s))

\* Lines 100-175: the two generators over the pre-split or the flat layout.
FlowFromDirectory ==
    LET dir == IF PreSplit THEN "train" ELSE "flat"
        ci == ClassIndices(dir)
    IN  [dir |-> dir, class_indices |-> ci,
         samples |-> SumSeq([i \in DOMAIN ci |-> GenClassSamples(dir, ci[i])])]

\* flow_from_directory lists the directory: FileNotFoundError when it is absent.
LoadData ==
    /\ pc = "start"
    /\ IF dataDir.exists
       THEN /\ train_generator' = FlowFromDirectory
            /\ pc' = "loaded"
       ELSE /\ pc' = "error_load"
            /\ UNCHANGED train_generator
    /\ UNCHANGED <<orgVars, dbVars, fileVars, dataDir, args, modelsDir, class_counts, class_weight, warned, model,
                   fit_kwargs, history, checkpoint, earlyStop, reduceLR>>

\* Lines 181-185: the directory the counts are taken from.
CountDir == IF dataDir.trainExists THEN "train" ELSE "flat"

\* Lines 188-195: images of count_dir/class_name, 0 when that path is absent.
CountImages(count_dir, name) ==
    IF name \in ClassNames
    THEN Max0(IF count_dir = "train" THEN dataDir.train[name] ELSE dataDir.flat[name])
    ELSE 0

ClassCountsMutReversed(ci) ==
    [i \in DOMAIN ci |-> CountImages(CountDir, ci[Len(ci) + 1 - i])]

ClassCounts(ci) == [i \in DOMAIN ci |-> CountImages(CountDir, ci[i])]

SeqMax(s) == CHOOSE m \in Range(s) : \A x \in Range(s) : x <= m

\* Lines 198-203: weight max_count / count as the fraction num / den, the
\* fallback 1.0 for a class without images, None without any count.
ClassWeightMutMin(counts) ==
    IF Len(counts) > 0 /\ SeqMax(counts) > 0
    THEN [present |-> TRUE,
          table |-> [i \in DOMAIN counts |->
                       IF counts[i] > 0
                       THEN [num |-> counts[i], den |-> SeqMax(counts), fallback |-> FALSE]
                       ELSE [num |-> 1, den |-> 1, fallback |-> TRUE]]]
    ELSE [present |-> FALSE, table |-> <<>>]

ClassWeightMutAlways(counts) ==
    [present |-> TRUE,
     table |-> [i \in DOMAIN counts |->
                  IF counts[i] > 0
                  THEN [num |-> SeqMax(counts), den |-> counts[i], fallback |-> FALSE]
                  ELSE [num |-> 1, den |-> 1, fallback |-> TRUE]]]

ClassWeight(counts) ==
    IF Len(counts) > 0 /\ SeqMax(counts) > 0
    THEN [present |-> TRUE,
          table |-> [i \in DOMAIN counts |->
                       IF counts[i] > 0
                       THEN [num |-> SeqMax(counts), den |-> counts[i], fallback |-> FALSE]
                       ELSE [num |-> 1, den |-> 1, fallback |-> TRUE]]]
    ELSE [present |-> FALSE, table |-> <<>>]

\* Lines 177-211: count, weigh, print the distribution and the warning.
ComputeWeights ==
    /\ pc = "loaded"
    /\ LET counts == ClassCounts(train_generator.class_indices)
           w == ClassWeight(counts)
       IN  /\ class_counts' = counts
           /\ class_weight' = w
           /\ warned' = ~w.present
    /\ pc' = "weighted"
    /\ UNCHANGED <<orgVars, dbVars, fileVars, dataDir, args, modelsDir, train_generator, model, fit_kwargs,
                   history, checkpoint, earlyStop, reduceLR>>

\* Lines 213-221: the model factory, ValueError for an unknown model_type.
CreateModel ==
    /\ pc = "weighted"
    /\ IF args.model_type \in {"simple", "transfer"}
       THEN /\ model' = [model EXCEPT !.built = TRUE,
                            !.lr = IF args.model_type = "simple" THEN LrSimple
                                   ELSE LrTransfer]
            /\ pc' = "built"
       ELSE /\ pc' = "error_model"
            /\ UNCHANGED model
    /\ UNCHANGED <<orgVars, dbVars, fileVars, dataDir, args, modelsDir, train_generator, class_counts, class_weight,
                   warned, fit_kwargs, history, checkpoint, earlyStop, reduceLR>>

\* Lines 246-258: class_weight is passed only when it was calculated.
FitKwargs(w) == [called |-> TRUE, has_class_weight |-> w.present, class_weight |-> w]

\* ModelCheckpoint starts a run with best = -inf, whatever file is on disk.
CheckpointTrainBeginMutResumes(ck, file) ==
    [ck EXCEPT !.best = IF file.exists THEN file.acc ELSE NegInf]

CheckpointTrainBegin(ck, file) == [ck EXCEPT !.best = NegInf]

\* Line 260, entry of model.fit: the callbacks' on_train_begin; a generator
\* without any sample makes fit raise before the first epoch.
FitBegin ==
    /\ pc = "built"
    /\ fit_kwargs' = FitKwargs(class_weight)
    /\ checkpoint' = CheckpointTrainBegin(checkpoint, artifactFile)
    /\ earlyStop' = [best |-> PosInf, wait |-> 0, best_weights |-> 0, stopped_epoch |-> 0]
    /\ reduceLR' = [best |-> PosInf, wait |-> 0]
    /\ pc' = IF train_generator.samples > 0 THEN "fitting" ELSE "error_fit"
    /\ UNCHANGED <<orgVars, dbVars, fileVars, dataDir, args, modelsDir, train_generator, class_counts, class_weight,
                   warned, model, history>>

\* ModelCheckpoint(monitor='val_accuracy', save_best_only=True).on_epoch_end:
\* np.greater(current, best) saves the model of this epoch over the file.
CheckpointImprovedMutGeq(current, best) == current >= best

CheckpointImproved(current, best) == current > best

CheckpointEpochEnd(ck, e, val_accuracy) ==
    IF CheckpointImproved(val_accuracy, ck.best)
    THEN [best |-> val_accuracy, artifact |-> e]
    ELSE ck

\* EarlyStopping(monitor='val_loss', patience=5, restore_best_weights=True)
\* .on_epoch_end, e counted from 1 (Keras' epoch is e - 1).
EsShouldStopMutEarly(wait, e) == wait >= EsPatience - 1 /\ e - 1 > 0

EsShouldStop(wait, e) == wait >= EsPatience /\ e - 1 > 0

EarlyStoppingEpochEnd(es, e, val_loss) ==
    IF val_loss < es.best
    THEN [stop |-> FALSE,
          state |-> [best |-> val_loss, wait |-> 0, best_weights |-> e,
                     stopped_epoch |-> es.stopped_epoch]]
    ELSE IF EsShouldStop(es.wait + 1, e)
         THEN [stop |-> TRUE,
               state |-> [es EXCEPT !.wait = es.wait + 1, !.stopped_epoch = e]]
         ELSE [stop |-> FALSE, state |-> [es EXCEPT !.wait = es.wait + 1]]

\* ReduceLROnPlateau(monitor='val_loss', factor=0.5, patience=3, min_lr=1e-7)
\* .on_epoch_end (cooldown 0): improvement is np.less(current, best - min_delta).
ReduceLREpochEndMutNoFloor(rl, lr, val_loss) ==
    IF val_loss < rl.best - RlrMinDelta
    THEN [lr |-> lr, state |-> [best |-> val_loss, wait |-> 0]]
    ELSE IF rl.wait + 1 >= RlrPatience
         THEN IF lr > MinLr
              THEN [lr |-> lr \div RlrFactorDiv, state |-> [rl EXCEPT !.wait = 0]]
              ELSE [lr |-> lr, state |-> [rl EXCEPT !.wait = rl.wait + 1]]
         ELSE [lr |-> lr, state |-> [rl EXCEPT !.wait = rl.wait + 1]]

ReduceLREpochEnd(rl, lr, val_loss) ==
    IF val_loss < rl.best - RlrMinDelta
    THEN [lr |-> lr, state |-> [best |-> val_loss, wait |-> 0]]
    ELSE IF rl.wait + 1 >= RlrPatience
         THEN IF lr > MinLr
              THEN [lr |-> IF lr \div RlrFactorDiv > MinLr THEN lr \div RlrFactorDiv
                           ELSE MinLr,
                    state |-> [rl EXCEPT !.wait = 0]]
              ELSE [lr |-> lr, state |-> [rl EXCEPT !.wait = rl.wait + 1]]
         ELSE [lr |-> lr, state |-> [rl EXCEPT !.wait = rl.wait + 1]]

\* model.save(filepath, overwrite=True): the file is replaced, without a lock
\* and without a look at what it holds.
ArtifactWriteMutKeepsBetter(file, writer, acc) ==
    IF file.exists /\ file.acc >= acc
    THEN file
    ELSE [exists |-> TRUE, writer |-> writer, acc |-> acc]

ArtifactWrite(file, writer, acc) == [exists |-> TRUE, writer |-> writer, acc |-> acc]

\* The artifact file after a step that took a run's ModelCheckpoint from ck to
\* ckNew: written when ckNew saved an epoch.
FileAfter(file, ck, ckNew, writer) ==
    IF ckNew.artifact # ck.artifact THEN ArtifactWrite(file, writer, ckNew.best) ELSE file

LogAfter(log, file, ck, ckNew, writer) ==
    IF ckNew.artifact # ck.artifact
    THEN Append(log, FileAfter(file, ck, ckNew, writer))
    ELSE log

\* The state the callbacks of one fit call read and write.
RunState ==
    [history |-> history, checkpoint |-> checkpoint, earlyStop |-> earlyStop,
     reduceLR |-> reduceLR, model |-> model]

\* One epoch of model.fit: training and validation produce the epoch's
\* metrics, then the callbacks run in list order (lines 224-244);
\* ReduceLROnPlateau logs the learning rate the epoch was trained with.
AfterEpochMutPreempts(st, val_loss, val_accuracy) ==
    LET e == Len(st.history.val_loss) + 1
        es == EarlyStoppingEpochEnd(st.earlyStop, e, val_loss)
        rl == ReduceLREpochEnd(st.reduceLR, st.model.lr, val_loss)
    IN  IF es.stop
        THEN [st EXCEPT !.earlyStop = es.state,
                        !.model = [st.model EXCEPT !.weights = es.state.best_weights,
                                                   !.stop_training = TRUE]]
        ELSE [history |-> [val_loss |-> Append(st.history.val_loss, val_loss),
                           val_accuracy |-> Append(st.history.val_accuracy, val_accuracy),
                           lr |-> Append(st.history.lr, st.model.lr)],
              checkpoint |-> CheckpointEpochEnd(st.checkpoint, e, val_accuracy),
              earlyStop |-> es.state,
              reduceLR |-> rl.state,
              model |-> [st.model EXCEPT !.weights = e, !.stop_training = FALSE,
                                         !.lr = rl.lr]]

AfterEpochMutSharedMonitor(st, val_loss, val_accuracy) ==
    LET e == Len(st.history.val_loss) + 1
        ck == CheckpointEpochEnd(st.checkpoint, e, val_accuracy)
        es == EarlyStoppingEpochEnd(st.earlyStop, e, val_loss)
        rl == ReduceLREpochEnd(st.reduceLR, st.model.lr, val_loss)
    IN  [history |-> [val_loss |-> Append(st.history.val_loss, val_loss),
                      val_accuracy |-> Append(st.history.val_accuracy, val_accuracy),
                      lr |-> Append(st.history.lr, st.model.lr)],
         checkpoint |-> ck,
         earlyStop |-> IF ck.artifact = e THEN [es.state EXCEPT !.wait = 0] ELSE es.state,
         reduceLR |-> rl.state,
         model |-> [st.model EXCEPT
                      !.weights = IF es.stop THEN es.state.best_weights ELSE e,
                      !.stop_training = es.stop,
                      !.lr = rl.lr]]

AfterEpoch(st, val_loss, val_accuracy) ==
    LET e == Len(st.history.val_loss) + 1
        es == EarlyStoppingEpochEnd(st.earlyStop, e, val_loss)
        rl == ReduceLREpochEnd(st.reduceLR, st.model.lr, val_loss)
    IN  [history |-> [val_loss |-> Append(st.history.val_loss, val_loss),
                      val_accuracy |-> Append(st.history.val_accuracy, val_accuracy),
                      lr |-> Append(st.history.lr, st.model.lr)],
         checkpoint |-> CheckpointEpochEnd(st.checkpoint, e, val_accuracy),
         earlyStop |-> es.state,
         reduceLR |-> rl.state,
         model |-> [st.model EXCEPT
                      !.weights = IF es.stop THEN es.state.best_weights ELSE e,
                      !.stop_training = es.stop,
                      !.lr = rl.lr]]

\* Epochs of a run with a budget above MaxEpochs are followed one by one only
\* after the slow descent.
EpochEndMutIgnoresStop(val_loss, val_accuracy) ==
    /\ pc = "fitting"
    /\ Len(history.val_loss) < args.epochs
    /\ args.epochs <= MaxEpochs \/ Len(history.val_loss) >= ScriptEpochs
    /\ LET st == AfterEpoch(RunState, val_loss, val_accuracy)
       IN  /\ history' = st.history
           /\ checkpoint' = st.checkpoint
           /\ earlyStop' = st.earlyStop
           /\ reduceLR' = st.reduceLR
           /\ model' = st.model
           /\ artifactFile' = FileAfter(artifactFile, checkpoint, st.checkpoint, "this")
           /\ fileLog' = LogAfter(fileLog, artifactFile, checkpoint, st.checkpoint, "this")
    /\ UNCHANGED <<orgVars, dbVars, otherRun, dataDir, args, pc, modelsDir, train_generator, class_counts,
                   class_weight, warned, fit_kwargs>>

EpochEnd(val_loss, val_accuracy) ==
    /\ pc = "fitting"
    /\ ~model.stop_training
    /\ Len(history.val_loss) < args.epochs
    /\ args.epochs <= MaxEpochs \/ Len(history.val_loss) >= ScriptEpochs
    /\ LET st == AfterEpoch(RunState, val_loss, val_accuracy)
       IN  /\ history' = st.history
           /\ checkpoint' = st.checkpoint
           /\ earlyStop' = st.earlyStop
           /\ reduceLR' = st.reduceLR
           /\ model' = st.model
           /\ artifactFile' = FileAfter(artifactFile, checkpoint, st.checkpoint, "this")
           /\ fileLog' = LogAfter(fileLog, artifactFile, checkpoint, st.checkpoint, "this")
    /\ UNCHANGED <<orgVars, dbVars, otherRun, dataDir, args, pc, modelsDir, train_generator, class_counts,
                   class_weight, warned, fit_kwargs>>

\* The validation loss of epoch e of the slow descent: one unit (1e-4) lower
\* every fourth epoch, so EarlyStopping sees an improvement before its patience
\* runs out while ReduceLROnPlateau, which asks for more than min_delta, keeps
\* halving the learning rate.
SlowDescent(e) == 11 - ((e - 1) \div 4)

RECURSIVE AfterEpochs(_, _, _)
AfterEpochs(st, e, last) ==
    IF e > last \/ st.model.stop_training
    THEN st
    ELSE AfterEpochs(AfterEpoch(st, SlowDescent(e), 1), e + 1, last)

\* The first ScriptEpochs epochs of a long run of model.fit, with the
\* validation loss of the slow descent and a constant validation accuracy.
SlowDescentEpochs ==
    /\ pc = "fitting"
    /\ history.val_loss = <<>>
    /\ args.epochs > MaxEpochs
    /\ args.epochs >= ScriptEpochs
    /\ LET st == AfterEpochs(RunState, 1, ScriptEpochs)
       IN  /\ history' = st.history
           /\ checkpoint' = st.checkpoint
           /\ earlyStop' = st.earlyStop
           /\ reduceLR' = st.reduceLR
           /\ model' = st.model
           /\ artifactFile' = FileAfter(artifactFile, checkpoint, st.checkpoint, "this")
           /\ fileLog' = LogAfter(fileLog, artifactFile, checkpoint, st.checkpoint, "this")
    /\ UNCHANGED <<orgVars, dbVars, otherRun, dataDir, args, pc, modelsDir, train_generator, class_counts,
                   class_weight, warned, fit_kwargs>>

\* model.fit returns: the epoch budget is used up or stop_training is set
\* (lines 260-265).
TrainEnd ==
    /\ pc = "fitting"
    /\ model.stop_training \/ Len(history.val_loss) >= args.epochs
    /\ pc' = "done"
    /\ UNCHANGED <<orgVars, dbVars, fileVars, dataDir, args, modelsDir, train_generator, class_counts, class_weight,
                   warned, model, fit_kwargs, history, checkpoint, earlyStop, reduceLR>>

\* A second run of train_with_generator with the same artifact path: only its
\* ModelCheckpoint is followed. It enters fit, finishes epochs with some
\* validation accuracy, and returns.
OtherIdle == [status |-> "idle", ck |-> [best |-> NegInf, artifact |-> 0], epochs |-> 0]

OtherFitBegin ==
    /\ otherRun.status = "idle"
    /\ otherRun' = [otherRun EXCEPT !.status = "fitting",
                                    !.ck = CheckpointTrainBegin(otherRun.ck, artifactFile)]
    /\ UNCHANGED <<orgVars, trainVars, dbVars, artifactFile, fileLog>>

OtherEpochEnd(val_accuracy) ==
    /\ otherRun.status = "fitting"
    /\ otherRun.epochs < RaceEpochs
    /\ LET e == otherRun.epochs + 1
           ck == CheckpointEpochEnd(otherRun.ck, e, val_accuracy)
       IN  /\ otherRun' = [otherRun EXCEPT !.ck = ck, !.epochs = e]
           /\ artifactFile' = FileAfter(artifactFile, otherRun.ck, ck, "other")
           /\ fileLog' = LogAfter(fileLog, artifactFile, otherRun.ck, ck, "other")
    /\ UNCHANGED <<orgVars, trainVars, dbVars>>

OtherTrainEnd ==
    /\ otherRun.status = "fitting"
    /\ otherRun.epochs >= 1
    /\ otherRun' = [otherRun EXCEPT !.status = "done"]
    /\ UNCHANGED <<orgVars, trainVars, dbVars, artifactFile, fileLog>>

\* The predictions table of utils/database.py. A row is its id and its
\* user_id; label, confidence and image are not read by delete_prediction.
Users == {1, 2}
PredictionIds == 1 .. (MaxPredictions + 1)

DeleteIdle == [called |-> FALSE, prediction_id |-> 0, user_id |-> 0, deleted |-> FALSE,
               before |-> {}, after |-> {}]

\* save_prediction: one INSERT; the id is the next AUTOINCREMENT value, never
\* one that was used before.
SavePrediction(user_id) ==
    /\ lastId < MaxPredictions
    /\ lastId' = lastId + 1
    /\ predictions' = predictions \cup {[id |-> lastId + 1, user_id |-> user_id]}
    /\ UNCHANGED <<orgVars, trainVars, fileVars, lastDelete>>

\* The rows that DELETE ... WHERE id = ? AND user_id = ? matches.
DeleteRowsMutAnyUser(rows, prediction_id, user_id) ==
    { r \in rows : r.id = prediction_id }

DeleteRows(rows, prediction_id, user_id) ==
    { r \in rows : r.id = prediction_id /\ r.user_id = user_id }

\* delete_prediction: the DELETE, then deleted = cursor.rowcount > 0.
DeletePrediction(prediction_id, user_id) ==
    LET matched == DeleteRows(predictions, prediction_id, user_id)
    IN  /\ predictions' = predictions \ matched
        /\ lastDelete' = [called |-> TRUE, prediction_id |-> prediction_id,
                          user_id |-> user_id, deleted |-> Cardinality(matched) > 0,
                          before |-> predictions, after |-> predictions']
        /\ UNCHANGED <<orgVars, trainVars, fileVars, lastId>>

\* Line 278: argparse accepts --model_type only from choices.
ParseArgsAcceptsMutAny(model_type) == TRUE

ParseArgsAccepts(model_type) == model_type \in {"simple", "transfer"}

\* main() of train_model.py (lines 268-317): parse_args exits on a bad
\* argument; models/ is created; a missing data directory is reported and
\* main returns; otherwise train_with_generator is called.
TrainMain ==
    /\ pc = "cli"
    /\ IF ~ParseArgsAccepts(args.model_type)
       THEN /\ pc' = "rejected"
            /\ UNCHANGED modelsDir
       ELSE /\ modelsDir' = TRUE
            /\ pc' = IF dataDir.exists THEN "start" ELSE "nodata"
    /\ UNCHANGED <<orgVars, dbVars, fileVars, dataDir, args, train_generator, class_counts, class_weight,
                   warned, model, fit_kwargs, history, checkpoint, earlyStop, reduceLR>>

(***************************************************************************)
(* Initial states and specifications                                       *)
(***************************************************************************)
\* The trainer before main() or train_with_generator is entered.
TrainIdle ==
    /\ pc = IF args.from_cli THEN "cli" ELSE "start"
    /\ modelsDir = FALSE
    /\ train_generator = [dir |-> "none", class_indices |-> <<>>, samples |-> 0]
    /\ class_counts = <<>>
    /\ class_weight = [present |-> FALSE, table |-> <<>>]
    /\ warned = FALSE
    /\ model = [built |-> FALSE, weights |-> 0, lr |-> 0, stop_training |-> FALSE]
    /\ fit_kwargs = [called |-> FALSE, has_class_weight |-> FALSE,
                     class_weight |-> [present |-> FALSE, table |-> <<>>]]
    /\ history = [val_loss |-> <<>>, val_accuracy |-> <<>>, lr |-> <<>>]
    /\ checkpoint = [best |-> NegInf, artifact |-> 0]
    /\ earlyStop = [best |-> PosInf, wait |-> 0, best_weights |-> 0, stopped_epoch |-> 0]
    /\ reduceLR = [best |-> PosInf, wait |-> 0]

\* No artifact file, no second run, an empty predictions table.
NoFile == [exists |-> FALSE, writer |-> "none", acc |-> 0]

FilesIdle ==
    /\ artifactFile = NoFile
    /\ fileLog = <<>>
    /\ otherRun = OtherIdle

DbIdle ==
    /\ predictions = {}
    /\ lastId = 0
    /\ lastDelete = DeleteIdle

\* Data directories: a folder that does not exist has no class folder; the flat
\* class folders are not read in the pre-split layout.
DataDirs ==
    { d \in [exists : {TRUE}, trainExists : BOOLEAN, valExists : BOOLEAN,
             flat : CountMaps, train : CountMaps] :
        /\ ~d.trainExists => d.train = NoClassDirs
        /\ (d.trainExists /\ d.valExists) => d.flat = NoClassDirs }

\* The data directory that does not exist.
MissingDir ==
    [exists |-> FALSE, trainExists |-> FALSE, valExists |-> FALSE,
     flat |-> NoClassDirs, train |-> NoClassDirs]

\* The documented pre-split data set, used for the long runs.
ScenarioDir ==
    [exists |-> TRUE, trainExists |-> TRUE, valExists |-> TRUE, flat |-> NoClassDirs,
     train |-> [c \in ClassNames |-> IF c = "NORMAL" THEN 100 ELSE 300]]

\* The files whose copy fails: none, or the file named 1 of one class.
Unreadables ==
    { u \in [ClassNames -> SUBSET {1}] :
        /\ \A c \in ClassNames : u[c] \subseteq 1 .. srcCount[c]
        /\ \E c \in ClassNames : u[c] = {} }

InitOrg ==
    /\ \/ /\ srcExists = TRUE
          /\ srcCount \in [ClassNames -> FileCounts]
       \/ /\ srcExists = FALSE
          /\ srcCount = NoClassDirs
    /\ unreadable \in Unreadables
    /\ targetDirs = FALSE
    /\ target = [s \in SplitNames |-> [c \in ClassNames |-> {}]]
    /\ runLog = <<>>
    /\ lastMain = MainIdle
    /\ dataDir = ScenarioDir
    /\ args = [model_type |-> "simple", epochs |-> 1, from_cli |-> FALSE]
    /\ TrainIdle
    /\ FilesIdle
    /\ DbIdle

\* A call of train_with_generator or of main() on any data directory with a
\* one-epoch budget, or a call on the scenario directory with any budget up to
\* MaxEpochs, or the long run of the transfer model on the scenario directory.
InitTrain ==
    /\ srcExists = FALSE
    /\ srcCount = NoClassDirs
    /\ unreadable = [c \in ClassNames |-> {}]
    /\ targetDirs = FALSE
    /\ target = [s \in SplitNames |-> [c \in ClassNames |-> {}]]
    /\ runLog = <<>>
    /\ lastMain = MainIdle
    /\ \/ /\ dataDir \in DataDirs \cup {MissingDir}
          /\ args \in [model_type : ModelTypes, epochs : {1}, from_cli : BOOLEAN]
       \/ /\ dataDir = ScenarioDir
          /\ args \in [model_type : {"simple", "transfer"}, epochs : 1 .. MaxEpochs,
                       from_cli : {FALSE}]
       \/ /\ dataDir = ScenarioDir
          /\ args = [model_type |-> "transfer", epochs |-> LongRunEpochs,
                     from_cli |-> FALSE]
    /\ TrainIdle
    /\ FilesIdle
    /\ DbIdle

\* Two calls of train_with_generator on the scenario directory that share the
\* artifact path, with or without a file left there by an earlier run.
InitArtifact ==
    /\ srcExists = FALSE
    /\ srcCount = NoClassDirs
    /\ unreadable = [c \in ClassNames |-> {}]
    /\ targetDirs = FALSE
    /\ target = [s \in SplitNames |-> [c \in ClassNames |-> {}]]
    /\ runLog = <<>>
    /\ lastMain = MainIdle
    /\ dataDir = ScenarioDir
    /\ args \in [model_type : {"simple"}, epochs : 1 .. RaceEpochs, from_cli : {FALSE}]
    /\ TrainIdle
    /\ artifactFile \in {NoFile} \cup
                        {ArtifactWrite(NoFile, "previous", a) : a \in AccLevels}
    /\ fileLog = IF artifactFile.exists THEN <<artifactFile>> ELSE <<>>
    /\ otherRun = OtherIdle
    /\ DbIdle

\* The application's database after init_db, no prediction saved yet.
InitDb ==
    /\ srcExists = FALSE
    /\ srcCount = NoClassDirs
    /\ unreadable = [c \in ClassNames |-> {}]
    /\ targetDirs = FALSE
    /\ target = [s \in SplitNames |-> [c \in ClassNames |-> {}]]
    /\ runLog = <<>>
    /\ lastMain = MainIdle
    /\ dataDir = ScenarioDir
    /\ args = [model_type |-> "simple", epochs |-> 1, from_cli |-> FALSE]
    /\ TrainIdle
    /\ FilesIdle
    /\ DbIdle

NextOrg ==
    \E seed \in Seeds, t \in TrainSplits : Organize(seed, t)

\* Calls of organize_data with a train_split outside (0, 1).
NextOrgInvalid ==
    \E seed \in Seeds, t \in InvalidTrainSplits : Organize(seed, t)

NextOrgMain ==
    \/ OrgMainCheck
    \/ \E response \in {"y", "n"}, t \in TrainSplits : OrgMain(response, t)

NextTrain ==
    \/ TrainMain
    \/ LoadData
    \/ ComputeWeights
    \/ CreateModel
    \/ FitBegin
    \/ \E l \in LossLevels, a \in AccLevels : EpochEnd(l, a)
    \/ SlowDescentEpochs
    \/ TrainEnd

NextArtifact ==
    \/ LoadData
    \/ ComputeWeights
    \/ CreateModel
    \/ FitBegin
    \/ \E val_loss \in LossLevels, val_accuracy \in AccLevels :
          EpochEnd(val_loss, val_accuracy)
    \/ TrainEnd
    \/ OtherFitBegin
    \/ \E val_accuracy \in AccLevels : OtherEpochEnd(val_accuracy)
    \/ OtherTrainEnd

NextDb ==
    \/ \E u \in Users : SavePrediction(u)
    \/ \E pid \in PredictionIds, u \in Users : DeletePrediction(pid, u)

Init == InitOrg \/ InitTrain \/ InitArtifact \/ InitDb
Next == NextOrg \/ NextOrgInvalid \/ NextOrgMain \/ NextTrain \/ NextArtifact \/ NextDb

SpecOrg == InitOrg /\ [][NextOrg]_vars
SpecOrgMain == InitOrg /\ [][NextOrgMain]_vars
SpecOrgInvalid == InitOrg /\ [][NextOrgInvalid]_vars
SpecTrain == InitTrain /\ [][NextTrain]_vars
SpecArtifact == InitArtifact /\ [][NextArtifact]_vars
SpecDb == InitDb /\ [][NextDb]_vars
Spec == Init /\ [][Next]_vars

(***************************************************************************)
(* Properties of the organizer                                             *)
(***************************************************************************)
SplitLists(r, c) == <<r.split[c].train, r.split[c].val, r.split[c].test>>

NoDuplicates(seq) == \A i, j \in DOMAIN seq : seq[i] = seq[j] => i = j

\* Every image of class c went to exactly one of the three lists of run r.
Partitioned(r, c) ==
    LET tr == r.split[c].train
        va == r.split[c].val
        te == r.split[c].test
    IN  /\ r.split[c].done
        /\ NoDuplicates(tr) /\ NoDuplicates(va) /\ NoDuplicates(te)
        /\ Range(tr) \cap Range(va) = {}
        /\ Range(tr) \cap Range(te) = {}
        /\ Range(va) \cap Range(te) = {}
        /\ Len(tr) + Len(va) + Len(te) = srcCount[c]
        /\ Range(tr) \cup Range(va) \cup Range(te) = 1 .. srcCount[c]

\* C1: in every organize_data call, every non-empty class has each of its image
\* files in exactly one of the train, val and test lists: the lists are pairwise
\* disjoint and their sizes add up to the number of image files, whatever the
\* class size.
C1_EveryImageInExactlyOneSplit ==
    \A k \in DOMAIN runLog :
        \A c \in ClassNames : srcCount[c] > 0 => Partitioned(runLog[k], c)

\* C2: after any sequence of organize_data calls into the same target
\* directory, every file name of a class is on disk under at most one of
\* train, val and test.
C2_SplitsOnDiskDisjoint ==
    \A c \in ClassNames :
        \A s1, s2 \in SplitNames :
            s1 # s2 => target[s1][c] \cap target[s2][c] = {}

\* C3: two organize_data calls with the same source, seed and train fraction
\* assign every file to the same split, whatever order the directory listing
\* returned the files in.
C3_SameSeedSameAssignment ==
    \A i, j \in DOMAIN runLog :
        (runLog[i].seed = runLog[j].seed
            /\ runLog[i].train_split = runLog[j].train_split)
        => \A c \in ClassNames :
               /\ runLog[i].split[c].done = runLog[j].split[c].done
               /\ \A s \in SplitNames :
                      Range(runLog[i].split[c][s]) = Range(runLog[j].split[c][s])

ScenarioRun(r) ==
    /\ srcCount["NORMAL"] = 10
    /\ srcCount["PNEUMONIA"] = 10
    /\ r.train_split = 8
    /\ r.seed = 42

\* C4: with 10 image files in each class folder, trainFraction 0.8 and seed 42,
\* organize_data puts 8 files in train, 1 in val and 1 in test for each class.
C4_ScenarioEightOneOne ==
    \A k \in DOMAIN runLog :
        ScenarioRun(runLog[k])
        => \A c \in ClassNames :
               /\ runLog[k].split[c].done
               /\ Len(runLog[k].split[c].train) = 8
               /\ Len(runLog[k].split[c].val) = 1
               /\ Len(runLog[k].split[c].test) = 1

\* C4 witness: the scenario call was made and its files are on disk.
C4_Witness ==
    \E k \in DOMAIN runLog :
        /\ ScenarioRun(runLog[k])
        /\ \A c \in ClassNames : Cardinality(target["train"][c]) >= 8

(***************************************************************************)
(* Properties of the training run                                          *)
(***************************************************************************)
Weighted == pc \in {"weighted", "built", "fitting", "done", "error_model", "error_fit"}

Positive(counts) == { i \in DOMAIN counts : counts[i] > 0 }

\* C5: when every class has a positive training count, weight[c] is
\* max(counts) / counts[c]: the most frequent class has weight 1.0, every weight
\* is at least 1, and counts {NORMAL: 100, PNEUMONIA: 300} give 3.0 and 1.0.
C5_WeightIsMaxOverCount ==
    (Weighted /\ Len(class_counts) > 0 /\ Positive(class_counts) = DOMAIN class_counts)
    => /\ class_weight.present
       /\ DOMAIN class_weight.table = DOMAIN class_counts
       /\ \A i \in DOMAIN class_counts :
              LET w == class_weight.table[i]
              IN  /\ w.num * class_counts[i] = w.den * SeqMax(class_counts)
                  /\ w.num >= w.den
                  /\ class_counts[i] = SeqMax(class_counts) => w.num = w.den
       /\ class_counts = <<100, 300>>
          => /\ class_weight.table[1].num = 3 * class_weight.table[1].den
             /\ class_weight.table[2].num = class_weight.table[2].den

\* C5 witness: the weights of the 100 / 300 scenario were computed, and so were
\* the weights of an unbalanced pair of small counts.
C5_Witness ==
    /\ Weighted
    /\ class_counts = <<100, 300>>
    /\ class_weight.present
    /\ class_weight.table[1].num = 300

\* C6: when exactly one class has no training sample and the other has some,
\* weighting is disabled (class_weight absent) and no class gets the fallback
\* weight 1.0.
C6_OneEmptyClassDisablesWeighting ==
    (Weighted /\ Len(class_counts) = 2 /\ Cardinality(Positive(class_counts)) = 1)
    => /\ ~class_weight.present
       /\ \A i \in DOMAIN class_weight.table : ~class_weight.table[i].fallback

\* C7: when fewer than two classes have a training sample, the run fails before
\* training starts: no model is built, fit is not called, no epoch runs.
C7_FewerThanTwoClassesFailsFast ==
    (Weighted /\ Cardinality(Positive(class_counts)) < 2)
    => /\ ~model.built
       /\ ~fit_kwargs.called
       /\ history.val_loss = <<>>

\* C8: when all class counts are zero or the count mapping is empty, the weight
\* table is None, the warning is printed, no weight of 1.0 is made up, and the
\* run goes on to the fit call, made without class_weight: it does not fail at
\* the weight computation (a failure before fit is the model factory's).
C8_NoCountsTrainsUnweighted ==
    (Weighted /\ Positive(class_counts) = {})
    => /\ ~class_weight.present
       /\ class_weight.table = <<>>
       /\ warned
       /\ fit_kwargs.called => ~fit_kwargs.has_class_weight
       /\ pc \in {"fitting", "done"} => fit_kwargs.called
       /\ (pc \in {"error_model", "error_fit"} /\ ~fit_kwargs.called)
          => (args.model_type \notin {"simple", "transfer"} /\ ~model.built)
       /\ (pc \in {"error_model", "error_fit"}
              /\ args.model_type \in {"simple", "transfer"})
          => fit_kwargs.called

\* C8 witness: fit was called without class_weight after all counts were zero.
C8_Witness ==
    /\ Positive(class_counts) = {}
    /\ Len(class_counts) > 0
    /\ warned
    /\ fit_kwargs.called
    /\ ~fit_kwargs.has_class_weight

SeqMin(s) == CHOOSE m \in Range(s) : \A x \in Range(s) : m <= x

\* The first epoch whose value is the largest (smallest) of the sequence.
FirstMax(s) == CHOOSE e \in DOMAIN s : s[e] = SeqMax(s) /\ \A d \in 1 .. e - 1 : s[d] < s[e]
FirstMin(s) == CHOOSE e \in DOMAIN s : s[e] = SeqMin(s) /\ \A d \in 1 .. e - 1 : s[d] > s[e]

\* C9: the artifact is written at the end of an epoch only if that epoch's
\* validation accuracy is strictly greater than every earlier one of the run,
\* so after any sequence of epochs it holds the first epoch that reached the
\* maximum validation accuracy.
C9_ArtifactIsFirstBestAccuracy ==
    IF history.val_accuracy = <<>>
    THEN checkpoint.artifact = 0
    ELSE /\ checkpoint.artifact = FirstMax(history.val_accuracy)
         /\ checkpoint.best = SeqMax(history.val_accuracy)

\* C9 witness: a later epoch equalled the best accuracy and one fell below it,
\* and the artifact is still the earlier epoch.
C9_Witness ==
    /\ Len(history.val_accuracy) >= 3
    /\ checkpoint.artifact = 1
    /\ history.val_accuracy[1] = history.val_accuracy[2]
    /\ history.val_accuracy[3] < history.val_accuracy[1]

\* Epoch k did not improve on the best validation loss of the epochs before it.
NoImprovement(k) ==
    /\ k > 1
    /\ history.val_loss[k] >= SeqMin(SubSeq(history.val_loss, 1, k - 1))

\* The last EsPatience epochs all failed to improve on the best loss.
Plateau ==
    LET n == Len(history.val_loss)
    IN  /\ n > EsPatience
        /\ \A k \in (n - EsPatience + 1) .. n : NoImprovement(k)

\* C10: early stopping fires at the end of an epoch exactly when validation
\* loss has failed to improve on the best loss for patience (5) consecutive
\* epochs ending there; the weights in memory are then those of the epoch with
\* the lowest validation loss, not those of the last epoch.
C10_EarlyStopAtPatience ==
    /\ model.stop_training <=> Plateau
    /\ model.stop_training
       => /\ earlyStop.stopped_epoch = Len(history.val_loss)
          /\ model.weights = FirstMin(history.val_loss)
          /\ model.weights # Len(history.val_loss)

\* C10 witness: early stopping fired and the restored best-loss epoch is not
\* the best-accuracy epoch held by the artifact.
C10_Witness ==
    /\ model.stop_training
    /\ model.weights = FirstMin(history.val_loss)
    /\ checkpoint.artifact # model.weights

\* The learning rate after epoch k: the one epoch k + 1 was trained with, or
\* the optimizer's when k is the last epoch.
LrAfter(k) == IF k < Len(history.lr) THEN history.lr[k + 1] ELSE model.lr

\* Half the rate, but not below the floor.
Halved(lr) == IF lr \div 2 > MinLr THEN lr \div 2 ELSE MinLr

\* Epoch k did not improve on the best earlier loss by more than min_delta.
NoImprovementByDelta(k) ==
    /\ k > 1
    /\ history.val_loss[k] >= SeqMin(SubSeq(history.val_loss, 1, k - 1)) - RlrMinDelta

\* The number of epochs since the last one that improved on the best loss.
EpochsSinceImprovement ==
    LET n == Len(history.val_loss)
        improving == { k \in 1 .. n : ~NoImprovement(k) }
    IN  IF n = 0 THEN 0
        ELSE n - (CHOOSE k \in improving : \A j \in improving : j <= k)

\* C11: the learning rate is at least the floor 1e-7 from the first epoch on;
\* an epoch leaves it as it is or halves it (down to the floor at most), so it
\* never increases; it is halved only at the end of 3 consecutive epochs that
\* did not improve the validation loss, and 3 consecutive epochs without an
\* improvement always bring it to half (or the floor) of what it was; the
\* early-stopping counter is the number of epochs since the last improvement,
\* whether or not the rate was reduced meanwhile.
C11_LrHalvedOnPlateauNeverBelowFloor ==
    LET n == Len(history.val_loss)
    IN  /\ model.built => model.lr >= MinLr
        /\ Len(history.lr) = n
        /\ \A k \in 1 .. n :
              /\ history.lr[k] >= MinLr
              /\ LrAfter(k) \in {history.lr[k], Halved(history.lr[k])}
              /\ LrAfter(k) <= history.lr[k]
              /\ LrAfter(k) < history.lr[k]
                 => /\ k > RlrPatience
                    /\ \A j \in (k - RlrPatience + 1) .. k : NoImprovementByDelta(j)
              /\ (k > RlrPatience
                    /\ \A j \in (k - RlrPatience + 1) .. k : NoImprovement(j))
                 => LrAfter(k) <= Halved(history.lr[k - RlrPatience + 1])
        /\ pc \in {"fitting", "done"} => earlyStop.wait = EpochsSinceImprovement

\* C11 witness: a halving was cut off at the floor, at the end of an epoch that
\* the early-stopping counter counted as its second without improvement.
C11_Witness ==
    \E k \in 1 .. Len(history.lr) :
        /\ k = Len(history.lr)
        /\ history.lr[k] > MinLr
        /\ history.lr[k] \div 2 < MinLr
        /\ model.lr = MinLr
        /\ earlyStop.wait = 2

\* The EsPatience epochs ending with epoch n all failed to improve on the best
\* loss.
PlateauAt(n) ==
    /\ n > EsPatience
    /\ \A k \in (n - EsPatience + 1) .. n : NoImprovement(k)

Terminal == pc \in {"done", "rejected", "nodata", "error_load", "error_model", "error_fit"}

\* Position of the run: main(), the stages of train_with_generator, the end.
PcRank ==
    CASE pc = "cli" -> 0
      [] pc = "start" -> 1
      [] pc = "loaded" -> 2
      [] pc = "weighted" -> 3
      [] pc = "built" -> 4
      [] pc = "fitting" -> 5
      [] Terminal -> 6

\* Grows with every stage entered and every epoch finished.
Progress == PcRank * (args.epochs + 1) + Len(history.val_loss)

BudgetKept ==
    LET n == Len(history.val_loss)
    IN  /\ n <= args.epochs
        /\ \A k \in 1 .. n - 1 : ~PlateauAt(k)
        /\ pc = "done" => (n = args.epochs \/ model.stop_training)
        /\ pc = "done" /\ model.stop_training => PlateauAt(n)

\* C12: a run never has more finished epochs than its epochs argument; no
\* epoch runs after the one at which early stopping fired; fit returns only
\* with the budget used up or after early stopping fired; every step of a run
\* enters a later stage or finishes one more epoch and a terminal state takes
\* no step, so the run is in a terminal state after at most `epochs` epochs.
C12_RunEndsWithinBudgetOrEarlyStop ==
    /\ []BudgetKept
    /\ [][Progress' > Progress /\ ~Terminal]_vars

\* C12 witness: fit returned after early stopping fired with budget left.
C12_Witness ==
    /\ pc = "done"
    /\ model.stop_training
    /\ Len(history.val_loss) < args.epochs

\* C13: when train_with_generator is called with an unrecognized model_type,
\* the configuration error is raised before any data loading: at the error no
\* generator was created and no directory was counted.
C13_UnknownModelTypeFailsBeforeLoading ==
    (pc = "error_model" /\ args.model_type \notin {"simple", "transfer"})
    => /\ train_generator.dir = "none"
       /\ class_counts = <<>>
       /\ ~warned

\* C14: a --model_type outside simple / transfer given to main() is rejected
\* when the arguments are parsed: the models directory is not created,
\* train_with_generator is not entered and no epoch runs.
C14_BadModelTypeRejectedAtParsing ==
    (args.from_cli /\ args.model_type \notin {"simple", "transfer"})
    => /\ pc \in {"cli", "rejected"}
       /\ ~modelsDir
       /\ train_generator.dir = "none"
       /\ ~model.built
       /\ ~fit_kwargs.called
       /\ history.val_loss = <<>>

\* C14 witness: main() was run with a bad --model_type and has exited.
C14_Witness ==
    /\ args.from_cli
    /\ args.model_type = "bogus"
    /\ pc = "rejected"

\* The class folders of the effective training directory: data_dir/train when
\* it is present, else data_dir.
EffectiveTrainCounts == IF dataDir.trainExists THEN dataDir.train ELSE dataDir.flat

NoTrainingImages == ~dataDir.exists \/ SumCounts(EffectiveTrainCounts) = 0

\* C15: when the effective training directory is missing or holds no image,
\* the run stops before fit: fit is not called, no epoch runs and no artifact
\* is written.
C15_NoTrainingImagesStopsBeforeFit ==
    NoTrainingImages
    => /\ ~fit_kwargs.called
       /\ history.val_loss = <<>>
       /\ checkpoint.artifact = 0

(***************************************************************************)
(* Properties of the organizer's check, copies and failures                *)
(***************************************************************************)
\* C16: check_data_structure returns true if and only if both class folders
\* exist and each holds at least one image file.
C16_CheckTrueIffBothClassesNonEmpty ==
    lastMain.checked
    => (lastMain.result <=> \A c \in ClassNames : srcCount[c] >= 1)

\* The files of class c that the newest call listed for split s and copied.
NewlyCopied(r, s, c) ==
    IF r.split[c].done THEN Range(r.split[c][s]) \ r.split[c].failed ELSE {}

\* C17: a step of the organizer leaves the source as it was (every file still
\* there under its name), and what an organize_data call adds under
\* target/{split}/{class} are exactly the files it listed for that split and
\* class and could copy, under the names they have in the source class folder.
C17_CopiesKeepSourceAndNames ==
    [][ /\ srcCount' = srcCount
        /\ srcExists' = srcExists
        /\ \A s \in SplitNames, c \in ClassNames :
              /\ target'[s][c] \subseteq 1 .. srcCount'[c]
              /\ IF runLog' # runLog
                 THEN target'[s][c]
                          = target[s][c] \cup NewlyCopied(runLog'[Len(runLog')], s, c)
                 ELSE target'[s][c] = target[s][c] ]_vars

\* C17 witness: a call copied files of a class into all three splits and the
\* class folder of the source still holds its files.
C17_Witness ==
    \E k \in DOMAIN runLog, c \in ClassNames :
        /\ runLog[k].split[c].done
        /\ srcCount[c] = Len(runLog[k].split[c].train) + Len(runLog[k].split[c].val)
                            + Len(runLog[k].split[c].test)
        /\ \A s \in SplitNames : target[s][c] # {}

\* C18: a run of main() with --check reports the structure and writes nothing:
\* no target folder is created, no file is copied, organize_data is not called.
C18_CheckModeWritesNothing ==
    [][ (lastMain' # lastMain /\ lastMain'.check)
        => /\ targetDirs' = targetDirs
           /\ target' = target
           /\ runLog' = runLog
           /\ srcCount' = srcCount ]_vars

\* C18 witness: --check reported a valid structure and there is no target.
C18_Witness ==
    /\ lastMain.called
    /\ lastMain.check
    /\ lastMain.result
    /\ ~targetDirs
    /\ runLog = <<>>

OtherClass(c) == IF c = ClassOrder[1] THEN ClassOrder[2] ELSE ClassOrder[1]

\* Every file of class c was copied or reported by run r, which left the
\* files on disk.
AllAttempted(r, c) ==
    /\ r.split[c].done
    /\ \A s \in SplitNames : Range(r.split[c][s]) \ r.split[c].failed \subseteq target[s][c]
    /\ Range(r.split[c].train) \cup Range(r.split[c].val) \cup Range(r.split[c].test)
           = 1 .. srcCount[c]

\* C19: in every organize_data call, a class whose folder is absent or holds no
\* image is skipped and the other class, when it has images, is still split
\* and copied; the six target folders exist after the call.
C19_MissingClassSkippedOtherCopied ==
    \A k \in DOMAIN runLog :
        /\ targetDirs
        /\ \A c \in ClassNames :
              (srcCount[c] <= 0 /\ srcCount[OtherClass(c)] > 0)
              => /\ ~runLog[k].split[c].done
                 /\ ~runLog[k].split[c].raised
                 /\ AllAttempted(runLog[k], OtherClass(c))

\* C20: in every organize_data call in which the copy of a file failed, every
\* other file of every class with images was still attempted and the call
\* reached its completion message.
C20_CopyFailureDoesNotStopRun ==
    \A k \in DOMAIN runLog :
        (\E c \in ClassNames : runLog[k].split[c].failed # {})
        => /\ ~runLog[k].raised
           /\ \A c \in ClassNames : srcCount[c] > 0 => AllAttempted(runLog[k], c)

\* C21: an organize_data call with a train_split outside (0, 1) fails as a
\* configuration error before any work: when it is the first call, it raises,
\* no target folder has been created and no file has been copied.
C21_InvalidFractionFailsBeforeAnyWork ==
    (Len(runLog) >= 1 /\ runLog[1].train_split \in InvalidTrainSplits)
    => /\ runLog[1].raised
       /\ Len(runLog) = 1 => ~targetDirs
       /\ \A s \in SplitNames, c \in ClassNames : target[s][c] = {}

(***************************************************************************)
(* Properties of the callbacks of one epoch                                *)
(***************************************************************************)
\* C22: at the end of an epoch whose validation accuracy is above the
\* checkpoint's best while its validation loss is not below early stopping's
\* best, the artifact is written and the early-stopping counter goes up by one;
\* at the end of an epoch whose loss is below the best while its accuracy is
\* not above the best, the counter is reset and the checkpoint is left alone.
C22_CheckpointAndEarlyStopIndependent ==
    [][ Len(history'.val_loss) = Len(history.val_loss) + 1
        => LET n == Len(history'.val_loss)
               l == history'.val_loss[n]
               a == history'.val_accuracy[n]
           IN  /\ (a > checkpoint.best /\ l >= earlyStop.best)
                  => /\ checkpoint'.artifact = n
                     /\ checkpoint'.best = a
                     /\ earlyStop'.wait = earlyStop.wait + 1
                     /\ earlyStop'.best = earlyStop.best
               /\ (l < earlyStop.best /\ a <= checkpoint.best)
                  => /\ earlyStop'.wait = 0
                     /\ earlyStop'.best = l
                     /\ checkpoint' = checkpoint ]_vars

\* C22 witness: the second epoch improved the loss and not the accuracy, the
\* third improved the accuracy and not the loss: the artifact is the third
\* epoch and the counter stands at one.
C22_Witness ==
    /\ Len(history.val_loss) = 3
    /\ history.val_loss[2] < history.val_loss[1]
    /\ history.val_accuracy[2] <= history.val_accuracy[1]
    /\ history.val_loss[3] >= history.val_loss[2]
    /\ history.val_accuracy[3] > history.val_accuracy[1]
    /\ checkpoint.artifact = 3
    /\ earlyStop.wait = 1
    /\ earlyStop.best_weights = 2

\* The stop was decided with the metrics of the stopping epoch recorded and
\* that epoch's checkpoint decision taken.
StopAtEpochBoundary ==
    model.stop_training
    => /\ earlyStop.stopped_epoch = Len(history.val_loss)
       /\ Len(history.val_accuracy) = Len(history.val_loss)
       /\ checkpoint.artifact = FirstMax(history.val_accuracy)
       /\ checkpoint.best = SeqMax(history.val_accuracy)

\* C23: stop_training is set only by a step that finishes an epoch, and when
\* it is set the validation metrics of that epoch are recorded and the
\* checkpoint decision of that epoch has been taken.
C23_EarlyStopOnlyAtEpochBoundary ==
    /\ []StopAtEpochBoundary
    /\ [][ (model'.stop_training /\ ~model.stop_training)
           => Len(history'.val_loss) = Len(history.val_loss) + 1 ]_vars

\* C23 witness: early stopping fired at the end of an epoch that also wrote
\* the artifact.
C23_Witness ==
    /\ model.stop_training
    /\ checkpoint.artifact = Len(history.val_accuracy)
    /\ earlyStop.stopped_epoch = Len(history.val_loss)

(***************************************************************************)
(* Properties of the class counts                                          *)
(***************************************************************************)
\* C24: the counts the weights are computed from are those of the training
\* split: they add up to the number of samples of the training generator.
C24_CountsAreTrainingSplitCounts ==
    Weighted => SumSeq(class_counts) = train_generator.samples

\* C25: the count, and so the weight, at class index i is taken from the
\* folder named like the class the training generator maps to i.
C25_CountsFollowLoaderIndices ==
    Weighted
    => /\ DOMAIN class_counts = DOMAIN train_generator.class_indices
       /\ \A i \in DOMAIN class_counts :
              class_counts[i] = CountImages(CountDir, train_generator.class_indices[i])
       /\ class_weight.present
          => /\ DOMAIN class_weight.table = DOMAIN class_counts
             /\ \A i \in DOMAIN class_counts :
                    class_counts[i] > 0
                    => class_weight.table[i].num * class_counts[i]
                           = class_weight.table[i].den * SeqMax(class_counts)

\* C25 witness: NORMAL (index 1) is the smaller class and carries the larger
\* weight.
C25_Witness ==
    /\ Weighted
    /\ train_generator.class_indices = <<"NORMAL", "PNEUMONIA">>
    /\ class_counts[1] < class_counts[2]
    /\ class_counts[1] = dataDir.train["NORMAL"]
    /\ class_weight.present
    /\ class_weight.table[1].num > class_weight.table[1].den
    /\ class_weight.table[2].num = class_weight.table[2].den

\* C27: the counts are those of the directory the training generator reads:
\* data_dir in the flat layout, data_dir/train in the pre-split layout.
C27_CountsFromGeneratorDirectory ==
    Weighted
    => \A i \in DOMAIN class_counts :
           class_counts[i]
               = CountImages(train_generator.dir, train_generator.class_indices[i])

(***************************************************************************)
(* Properties of the val / test division                                   *)
(***************************************************************************)
\* C29: in every organize_data call and for every class with images, the
\* files left after the train split are divided into val and test, test
\* getting ceil(r / 2) and val floor(r / 2) of the r files, neither empty.
C29_RemainderSplitEvenly ==
    \A k \in DOMAIN runLog :
        \A c \in ClassNames :
            srcCount[c] > 0
            => LET sp == runLog[k].split[c]
                   r == srcCount[c] - Len(sp.train)
               IN  /\ sp.done
                   /\ Len(sp.val) + Len(sp.test) = r
                   /\ Len(sp.test) = (r + 1) \div 2
                   /\ Len(sp.val) = r \div 2
                   /\ Len(sp.val) >= 1
                   /\ Len(sp.test) >= 1

(***************************************************************************)
(* Properties of the artifact file                                         *)
(***************************************************************************)
\* A step in which this run, or the other run, finishes an epoch.
ThisEpochStep == Len(history'.val_accuracy) = Len(history.val_accuracy) + 1
OtherEpochStep == otherRun'.epochs = otherRun.epochs + 1

\* C26: the artifact path is not locked. Of two runs that overlap on the
\* path, each replaces the file in exactly those epochs in which its
\* validation accuracy improves on its own best, whatever the file holds; the
\* file then holds that run's accuracy, and it changes in no other step.
C26_EachRunOverwritesOnOwnImprovement ==
    [][ /\ ThisEpochStep
           => IF checkpoint'.best > checkpoint.best
              THEN artifactFile' = [exists |-> TRUE, writer |-> "this",
                                    acc |-> history'.val_accuracy[Len(history'.val_accuracy)]]
              ELSE artifactFile' = artifactFile
        /\ OtherEpochStep
           => IF otherRun'.ck.best > otherRun.ck.best
              THEN artifactFile' = [exists |-> TRUE, writer |-> "other",
                                    acc |-> otherRun'.ck.best]
              ELSE artifactFile' = artifactFile
        /\ (~ThisEpochStep /\ ~OtherEpochStep) => artifactFile' = artifactFile ]_vars

\* While both runs are in fit, the file holds a checkpoint of this run with a
\* lower validation accuracy than one the other run wrote before it.
C26_Witness ==
    /\ pc = "fitting"
    /\ otherRun.status = "fitting"
    /\ artifactFile.exists
    /\ artifactFile.writer = "this"
    /\ Len(fileLog) >= 2
    /\ fileLog[Len(fileLog)] = artifactFile
    /\ \E i \in 1 .. (Len(fileLog) - 1) :
           /\ fileLog[i].writer = "other"
           /\ fileLog[i].acc > artifactFile.acc

\* C28: a run enters its first epoch with no best validation accuracy, and
\* the first epoch a run finishes writes the artifact with that epoch's
\* accuracy, whatever file the path held.
C28_FirstEpochAlwaysWritesArtifact ==
    /\ []( /\ (pc = "fitting" /\ Len(history.val_accuracy) = 0)
              => checkpoint.best = NegInf
           /\ (otherRun.status = "fitting" /\ otherRun.epochs = 0)
              => otherRun.ck.best = NegInf )
    /\ [][ /\ (ThisEpochStep /\ Len(history.val_accuracy) = 0)
              => /\ artifactFile' = [exists |-> TRUE, writer |-> "this",
                                     acc |-> history'.val_accuracy[1]]
                 /\ fileLog' = Append(fileLog, artifactFile')
           /\ (OtherEpochStep /\ otherRun.epochs = 0)
              => /\ artifactFile'.exists
                 /\ artifactFile'.writer = "other"
                 /\ fileLog' = Append(fileLog, artifactFile') ]_vars

\* A previous run left a checkpoint of the higher accuracy; the first epoch of
\* this run, of the lower accuracy, has replaced it.
C28_Witness ==
    /\ Len(history.val_accuracy) = 1
    /\ Len(fileLog) = 2
    /\ fileLog[1] = [exists |-> TRUE, writer |-> "previous", acc |-> 2]
    /\ fileLog[2] = [exists |-> TRUE, writer |-> "this", acc |-> 1]
    /\ artifactFile = fileLog[2]

(***************************************************************************)
(* Properties of the predictions table                                     *)
(***************************************************************************)
\* C30: delete_prediction removes a prediction only when it belongs to
\* user_id. A call that names a prediction of another user, or no prediction,
\* returns false and leaves the table as it was; a call that names a
\* prediction of user_id returns true and removes that row alone.
C30_DeleteOnlyOwnPrediction ==
    lastDelete.called
    => LET row == [id |-> lastDelete.prediction_id, user_id |-> lastDelete.user_id]
       IN  IF row \in lastDelete.before
           THEN /\ lastDelete.deleted
                /\ lastDelete.after = lastDelete.before \ {row}
           ELSE /\ ~lastDelete.deleted
                /\ lastDelete.after = lastDelete.before

\* Both users have saved predictions, and a delete that named a prediction
\* of the other user returned false.
C30_Witness ==
    /\ lastDelete.called
    /\ ~lastDelete.deleted
    /\ \E r \in lastDelete.before :
           /\ r.id = lastDelete.prediction_id
           /\ r.user_id # lastDelete.user_id
    /\ \E r \in lastDelete.before : r.user_id = lastDelete.user_id
    /\ lastDelete.after = lastDelete.before

====
